---- MODULE Spec2Model ----
(***************************************************************************)
(* Difficulty retargeting core of XEP-Core (src/src/pow.cpp) and the       *)
(* wallet locker (src/src/qt/applocker.cpp) as state machines.             *)
(*                                                                         *)
(* Scale.  TLC's integers are 32 bits wide, so the machine is modelled     *)
(* with every width divided by the same factors:                           *)
(*   - a byte is 2 bits (Base = 4) instead of 8;                           *)
(*   - arith_uint256 is 6 bytes wide (U256 = 4^6 = 2^12), arith_uint512    *)
(*     is twice that (U512 = 2^24), as 512 = 2 * 256 in the source;        *)
(*   - uint32_t / int are 12 bits wide (U32 = 2^12);                       *)
(*   - the compact encoding keeps its layout: a size field counting bytes  *)
(*     above a 3-byte mantissa whose top bit is the sign bit;              *)
(*   - time is counted in units of 150 s, so the hard-coded PoW spacing    *)
(*     10*60 s is 4 units and the testnet delay 30*60 s is 12 units.       *)
(* All arithmetic wraps exactly where the source's does, at these widths.  *)
(***************************************************************************)
EXTENDS Integers, Sequences, FiniteSets, TLC

----------------------------------------------------------------------------
(* Fixed-width integers (arith_uint256.h is not part of src/: modelled     *)
(* from spec.md section 3 and 4.1).                                        *)

TimeUnit == 5 * 30

Base == 2 * 2

NBytes256 == 3 + 3

RECURSIVE Pow(_, _)
Pow(x, n) == IF n <= 0 THEN 1 ELSE x * Pow(x, n - 1)

U256 == Pow(Base, NBytes256)

U512 == U256 * U256

U32 == U256

I32Max == (U32 \div 2) - 1

Max(a, b) == IF a >= b THEN a ELSE b

Min(a, b) == IF a <= b THEN a ELSE b

Abs(x) == IF x >= 0 THEN x ELSE 0 - x

\* C++ integer division truncates toward zero; TLA+'s \div floors.
TruncDiv(a, d) == IF a >= 0 THEN a \div d ELSE 0 - ((0 - a) \div d)

\* conversion of a wider integer to uint32_t
ToU32(x) == x % U32

\* conversion of a wider integer to int
ToI32(x) == LET m == x % U32 IN IF m > I32Max THEN m - U32 ELSE m

\* low 256 bits of a 512-bit value
trim256(x) == x % U256

\* product of two 512-bit values modulo 2^512, computed in 256-bit halves
\* so that no intermediate exceeds TLC's integers
Mul512(a, b) ==
    LET ah == a \div U256
        al == a % U256
        bh == b \div U256
        bl == b % U256
    IN  (al * bl + ((ah * bl + al * bh) % U256) * U256) % U512

Add512(a, b) == (a + b) % U512

\* base_uint::operator<<= : bits shifted past the top are lost, a shift by
\* the width or more leaves zero
RECURSIVE Shl512(_, _)
Shl512(a, n) == IF n <= 0 \/ a = 0 THEN a ELSE Shl512((a * 2) % U512, n - 1)

\* number of bytes of v: (bits() + 7) / 8
RECURSIVE ByteLen(_)
ByteLen(v) == IF v = 0 THEN 0 ELSE 1 + ByteLen(v \div Base)

----------------------------------------------------------------------------
(* Compact codec.                                                          *)

MantMod == Base * Base * Base

SignBit == MantMod \div 2

CompactSize(nCompact) == nCompact \div MantMod

CompactWord(nCompact) ==
    LET nSize == CompactSize(nCompact)
        w == nCompact % SignBit
    IN  IF nSize <= 3 THEN w \div Pow(Base, 3 - nSize) ELSE w

\* arith_uint256::SetCompactBase256: the decoded value, truncated to 256 bits
SetCompactBase256(nCompact) ==
    LET nSize == CompactSize(nCompact)
        w == CompactWord(nCompact)
    IN  IF nSize <= 3 THEN w
        ELSE IF nSize - 3 >= NBytes256 THEN 0
        ELSE (w * Pow(Base, nSize - 3)) % U256

CompactNegative(nCompact) ==
    CompactWord(nCompact) # 0 /\ (nCompact \div SignBit) % 2 = 1

CompactOverflow(nCompact) ==
    LET nSize == CompactSize(nCompact)
        w == CompactWord(nCompact)
    IN  w # 0 /\ (\/ nSize > NBytes256 + 2
                  \/ (w > Base - 1 /\ nSize > NBytes256 + 1)
                  \/ (w > Base * Base - 1 /\ nSize > NBytes256))

\* mantissa and size before packing, after the sign-bit normalisation
CompactParts(v) ==
    LET n == ByteLen(v)
        c == IF n <= 3 THEN v * Pow(Base, 3 - n) ELSE v \div Pow(Base, n - 3)
    IN  IF c >= SignBit THEN [size |-> n + 1, mant |-> c \div Base]
        ELSE [size |-> n, mant |-> c]

\* arith_uint256::GetCompactBase256
GetCompactBase256(v) ==
    LET p == CompactParts(v) IN p.size * MantMod + p.mant

\* arith_uint256::GetCompactRoundedBase256: as GetCompactBase256, but the
\* mantissa is incremented when the discarded low bits exceed half of one
\* mantissa LSB; a mantissa that reaches the sign bit is shifted right by a
\* byte and the size incremented.
GetCompactRoundedBase256(v) ==
    LET p == CompactParts(v)
        ulp == IF p.size > 3 THEN Pow(Base, p.size - 3) ELSE 1
        lost == IF p.size > 3 THEN v - p.mant * ulp ELSE 0
        m == IF 2 * lost > ulp THEN p.mant + 1 ELSE p.mant
    IN  IF m >= SignBit THEN (p.size + 1) * MantMod + (m \div Base)
        ELSE p.size * MantMod + m

----------------------------------------------------------------------------
(* Chain index.  The arena b is a sequence of block index nodes; a pointer  *)
(* is an index into it, 0 is nullptr, and a node's block hash is its       *)
(* index (the zero hash uint256() is 0).                                   *)

ALGO_POS == 0

ALGO_POW_SHA256 == 1

ALGO_COUNT == 2

Null == 0

\* CBlockIndex for a block built on parent p (Null for a genesis block):
\* nHeight counts from 0 at the genesis, nHeightPoW / nHeightPoS count the
\* work / stake blocks above the genesis.
NewBlock(b, p, t, bits, algo, pos) ==
    [pprev |-> p,
     nHeight |-> IF p = Null THEN 0 ELSE b[p].nHeight + 1,
     nHeightPoW |-> IF p = Null THEN 0 ELSE b[p].nHeightPoW + (IF pos THEN 0 ELSE 1),
     nHeightPoS |-> IF p = Null THEN 0 ELSE b[p].nHeightPoS + (IF pos THEN 1 ELSE 0),
     nTime |-> t, nBits |-> bits, algo |-> algo, pos |-> pos]

RECURSIVE GetLastBlockIndex(_, _, _)
GetLastBlockIndex(b, pindex, fProofOfStake) ==
    IF pindex # Null /\ b[pindex].pos # fProofOfStake /\ b[pindex].pprev # Null
    THEN GetLastBlockIndex(b, b[pindex].pprev, fProofOfStake)
    ELSE pindex

RECURSIVE GetLastBlockIndexForAlgo(_, _, _)
GetLastBlockIndexForAlgo(b, pindex, algo) ==
    IF pindex # Null /\ b[pindex].algo # algo /\ b[pindex].pprev # Null
    THEN GetLastBlockIndexForAlgo(b, b[pindex].pprev, algo)
    ELSE pindex

RECURSIVE GetASERTReferenceBlockForAlgo(_, _, _, _)
GetASERTReferenceBlockForAlgo(b, pindex, nASERTStartHeight, algo) ==
    IF pindex = Null THEN pindex
    ELSE IF b[pindex].nHeight >= nASERTStartHeight
         THEN LET pprev == GetLastBlockIndexForAlgo(b, b[pindex].pprev, algo)
              IN  IF pprev # Null
                  THEN GetASERTReferenceBlockForAlgo(b, pprev, nASERTStartHeight, algo)
                  ELSE pindex
         ELSE pindex

----------------------------------------------------------------------------
(* Retargeting.  A candidate header is [algo, pos, nTime]: GetAlgoType of   *)
(* its version, IsProofOfStake() and GetBlockTime().  A call returns        *)
(* [ok, bits]: ok is FALSE when the call does not return a value (an        *)
(* exception, a null dereference or a trapping division).                  *)

PoWSpacing == (10 * 60) \div TimeUnit

MinDifficultyDelay == (30 * 60) \div TimeUnit

MinDifficultyHeight == 10

Ret(bits) == [ok |-> TRUE, bits |-> bits]

Fail == [ok |-> FALSE, bits |-> 0]

fAlgoMissing(cand) == cand.algo = -1

\* the index into params.powLimit that WTEMA and ASERT use
LimitIndex(cand) ==
    IF fAlgoMissing(cand) THEN (IF cand.pos THEN ALGO_POS ELSE ALGO_POW_SHA256)
    ELSE cand.algo

\* fAlgoMissing ? GetLastBlockIndex(p, fProofOfStake) : GetLastBlockIndexForAlgo(p, algo)
LastInChannel(b, p, cand) ==
    IF fAlgoMissing(cand) THEN GetLastBlockIndex(b, p, cand.pos)
    ELSE GetLastBlockIndexForAlgo(b, p, cand.algo)

TargetSpacing(cand, params) ==
    IF cand.pos THEN ToU32(params.nPowTargetSpacing) ELSE PoWSpacing

RECURSIVE BitAnd(_, _)
BitAnd(x, y) ==
    IF x = 0 \/ y = 0 THEN 0
    ELSE (x % 2) * (y % 2) + 2 * BitAnd(x \div 2, y \div 2)

\* while ((refBlockTimestamp & mask) != 0) refBlockTimestamp++;
RECURSIVE RoundUpToMask(_, _)
RoundUpToMask(t, mask) ==
    IF BitAnd(t % U32, mask) # 0 THEN RoundUpToMask(t + 1, mask) ELSE t

\* lines 146-186.  bnNew512 = arith_uint512(bnNew) * numerator / denominator
\* throws uint_error("Division by zero") when denominator is 0.
WeightedTargetExponentialMovingAverage(b, pindexLast, cand, params) ==
    LET bnPowLimit == params.powLimit[LimitIndex(cand)]
        nProofOfWorkLimit == GetCompactBase256(bnPowLimit)
        pindexPrev == LastInChannel(b, pindexLast, cand)
        pindexPrevPrev == LastInChannel(b, b[pindexPrev].pprev, cand)
        nActualSpacing == ToI32(b[pindexPrev].nTime - b[pindexPrevPrev].nTime)
        bnPrev == SetCompactBase256(b[pindexPrev].nBits)
        nTargetSpacing == IF cand.pos THEN ToI32(params.nPowTargetSpacing) ELSE PoWSpacing
        nTargetTimespan == ToU32(params.nPowTargetTimespan)
        twoSpacing == ToU32(nTargetSpacing * 2)
        nInterval == ToI32(nTargetTimespan \div twoSpacing)
        numerator == ToU32(Max(ToI32((nInterval - 1) * nTargetSpacing + nActualSpacing), 1))
        denominator == ToU32(nInterval * nTargetSpacing)
        bnNew512 == Mul512(bnPrev, numerator) \div denominator
        bnNew == trim256(bnNew512)
    IN  IF pindexLast = Null THEN Ret(nProofOfWorkLimit)
        ELSE IF b[pindexPrev].pprev = Null THEN Ret(nProofOfWorkLimit)
        ELSE IF b[pindexPrevPrev].pprev = Null THEN Ret(nProofOfWorkLimit)
        ELSE IF twoSpacing = 0 \/ denominator = 0 THEN Fail
        ELSE IF bnNew512 > bnPowLimit \/ bnNew = 0 THEN Ret(nProofOfWorkLimit)
        ELSE Ret(GetCompactRoundedBase256(bnNew))

----------------------------------------------------------------------------
(* AverageTargetASERT, lines 188-347.  Its function-local statics are the   *)
(* state st = [memo, cache]:                                               *)
(*   memo  = pindexReferenceBlocks (init: whether the static has been      *)
(*           initialised, ref: the two pointers, indexed by algorithm);    *)
(*   cache = refBlockTargetCache, nTargetCacheHeight, nTargetCacheAlgo,    *)
(*           nTargetCacheHeightHash.                                       *)

StaticsInit ==
    [memo |-> [init |-> FALSE, ref |-> [a \in 0..(ALGO_COUNT - 1) |-> Null], by |-> Null],
     cache |-> [target |-> 0, height |-> -2, algo |-> ALGO_COUNT, hash |-> 0]]

\* line 211
nASERTStartHeight == 0

\* the initialiser memoising the first caller's pindexPrev itself
InitReferenceBlocksAtCaller(b, memo, pindexPrev) ==
    IF memo.init THEN memo
    ELSE [init |-> TRUE,
          ref |-> [a \in 0..(ALGO_COUNT - 1) |-> GetLastBlockIndexForAlgo(b, pindexPrev, a)],
          by |-> pindexPrev]

\* lines 222-225: the initialiser runs once, with the first caller's
\* pindexPrev, which the history field by records
InitReferenceBlocks(b, memo, pindexPrev) ==
    IF memo.init THEN memo
    ELSE [init |-> TRUE,
          ref |-> [a \in 0..(ALGO_COUNT - 1) |->
                      GetASERTReferenceBlockForAlgo(b, pindexPrev, nASERTStartHeight, a)],
          by |-> pindexPrev]

\* the window end taken at pindexPrev itself, no step back
SkipBackNone(b, pindex, n, cand) == pindex

\* lines 257-259: nBlocksToSkip steps back; -1 when a step dereferences nullptr
RECURSIVE SkipBack(_, _, _, _)
SkipBack(b, pindex, n, cand) ==
    IF n = 0 THEN pindex
    ELSE IF pindex = Null THEN -1
    ELSE SkipBack(b, LastInChannel(b, b[pindex].pprev, cand), n - 1, cand)

\* lines 266-281: the averaging loop from pindex with loop counter i
RECURSIVE AverageLoop(_, _, _, _, _, _, _, _)
AverageLoop(b, pindex, i, acc, nToAverage, cand, params, nProofOfWorkLimit) ==
    IF i >= ToI32(nToAverage) THEN acc
    ELSE LET counted == b[pindex].nBits # ToU32(nProofOfWorkLimit - 1)
                        \/ ~params.fPowAllowMinDifficultyBlocks
             acc2 == IF counted
                     THEN (acc + (SetCompactBase256(b[pindex].nBits) \div nToAverage)) % U256
                     ELSE acc
             i2 == IF counted THEN i + 1 ELSE i
             pnext == LastInChannel(b, b[pindex].pprev, cand)
         IN  IF pnext = Null THEN acc2
             ELSE AverageLoop(b, pnext, i2, acc2, nToAverage, cand, params, nProofOfWorkLimit)

\* 4r^3 + 11r^2 d + 35 r d^2 + 50 d^3 in arith_uint512
Cubic512(r, d) ==
    Add512(Add512(Mul512(4, Mul512(Mul512(r, r), r)),
                  Mul512(Mul512(11, Mul512(r, r)), d)),
           Add512(Mul512(Mul512(35, r), Mul512(d, d)),
                  Mul512(50, Mul512(Mul512(d, d), d))))

\* 50 d^3 in arith_uint512
FiftyCube512(d) == Mul512(50, Mul512(Mul512(d, d), d))

\* lines 305-340: the reference target times the factor, in arith_uint512;
\* [ok |-> FALSE] where a division by zero stops the call
ScaleTarget512(refBlockTarget, nTimeDiff, nTargetSpacing, nHeightDiff, params) ==
    LET dividend == nTimeDiff - ToU32(nTargetSpacing * nHeightDiff)
        fPositive == dividend >= 0
        divisor == ToU32(params.nPowTargetTimespan)
        exponent == ToI32(TruncDiv(dividend, divisor))
        remainder == ToU32(Abs(dividend) % divisor)
        shifted == Shl512(1, Abs(exponent))
        numerator ==
            IF fPositive
            THEN (IF remainder # 0
                  THEN Mul512(IF exponent > 0 THEN shifted ELSE 1, Cubic512(remainder, divisor))
                  ELSE (IF exponent > 0 THEN shifted ELSE 1))
            ELSE (IF remainder # 0 THEN Mul512(1, FiftyCube512(divisor)) ELSE 1)
        denominator ==
            IF fPositive
            THEN (IF remainder # 0 THEN Mul512(1, FiftyCube512(divisor)) ELSE 1)
            ELSE (IF remainder # 0
                  THEN Mul512(IF exponent < 0 THEN shifted ELSE 1, Cubic512(remainder, divisor))
                  ELSE (IF exponent < 0 THEN shifted ELSE 1))
    IN  IF divisor = 0 \/ denominator = 0 THEN [ok |-> FALSE]
        ELSE [ok |-> TRUE, bnNew512 |-> Mul512(refBlockTarget, numerator) \div denominator,
              dividend |-> dividend, exponent |-> exponent, remainder |-> remainder]

\* lines 341-346: the limit for a product above it or a zero target, else
\* the rounded compact form
ClampTarget(scaled, bnPowLimit) ==
    IF ~scaled.ok THEN Fail
    ELSE IF scaled.bnNew512 > bnPowLimit \/ trim256(scaled.bnNew512) = 0
         THEN Ret(GetCompactBase256(bnPowLimit))
         ELSE Ret(GetCompactRoundedBase256(trim256(scaled.bnNew512)))

\* lines 305-346: the exponent applied to the reference target
ScaleTarget(refBlockTarget, nTimeDiff, nTargetSpacing, nHeightDiff, params, bnPowLimit) ==
    ClampTarget(ScaleTarget512(refBlockTarget, nTimeDiff, nTargetSpacing, nHeightDiff, params),
                bnPowLimit)

\* The outcomes of nHeightDiff % 0 (line 253), which is undefined: the
\* division traps, or (udiv yields 0, no trap) the remainder is the dividend.
DivZeroOutcomes == {"trap", "dividend"}

\* the cache test without the comparison of block hashes
WindowCacheMissNoHash(cache, nWindowEndHeight, hashWindowEnd, cand, fUseCache) ==
    \/ ~fUseCache
    \/ cache.height # nWindowEndHeight
    \/ cache.algo # cand.algo
    \/ cache.target = 0
    \/ fAlgoMissing(cand)

\* lines 264-265: the window average must be recomputed
WindowCacheMiss(cache, nWindowEndHeight, hashWindowEnd, cand, fUseCache) ==
    \/ ~fUseCache
    \/ cache.height # nWindowEndHeight
    \/ cache.algo # cand.algo
    \/ cache.hash # hashWindowEnd
    \/ cache.target = 0
    \/ fAlgoMissing(cand)

\* the anchor test with the channel compared alone
AnchorCacheMissAlgoOnly(cache, cand) == cache.algo # cand.algo

\* line 293: the anchor target must be stored again
AnchorCacheMiss(cache, cand) ==
    \/ cache.height # -1
    \/ cache.algo # cand.algo
    \/ cache.hash # 0
    \/ cache.target = 0

\* lines 245-303: the critical section.  Returns the reference target, the
\* cache record it leaves and which path ran; ok is FALSE when it traps.
ReferenceTarget(b, pindexPrev, pindexLast, pindexReferenceBlock, nHeightDiff, nToAverage, cand, params, cache, fUseCache, divZero) ==
    LET nProofOfWorkLimit == GetCompactBase256(params.powLimit[LimitIndex(cand)])
        nHeight == ToU32(b[pindexLast].nHeight + 1)
        nBlocksToSkip == IF nToAverage = 0 THEN nHeightDiff ELSE nHeightDiff % nToAverage
        pindex == SkipBack(b, pindexPrev, nBlocksToSkip, cand)
        anchorTarget == SetCompactBase256(b[pindexReferenceBlock].nBits)
        anchorKey == [target |-> anchorTarget, height |-> -1, algo |-> cand.algo, hash |-> 0]
    IN  IF nToAverage = 0 /\ divZero = "trap"
        THEN [ok |-> FALSE, target |-> 0, cache |-> cache, path |-> "divzero"]
        ELSE IF pindex = -1
        THEN [ok |-> FALSE, target |-> 0, cache |-> cache, path |-> "nullderef"]
        ELSE IF pindex # Null /\ nToAverage > 0 /\ nHeight >= ToU32(nASERTStartHeight + nToAverage)
                /\ nHeightDiff >= nToAverage
        THEN \* window path, lines 262-290
             IF WindowCacheMiss(cache, ToI32(b[pindex].nHeight), pindex, cand, fUseCache)
             THEN LET avg == AverageLoop(b, pindex, 0, 0, nToAverage, cand, params,
                                         nProofOfWorkLimit)
                  IN  [ok |-> TRUE, target |-> avg,
                       cache |-> IF fUseCache
                                 THEN [target |-> avg, height |-> ToI32(b[pindex].nHeight),
                                       algo |-> cand.algo, hash |-> pindex]
                                 ELSE cache,
                       path |-> "window"]
             ELSE [ok |-> TRUE, target |-> cache.target, cache |-> cache,
                   path |-> "windowhit"]
        ELSE \* anchor path, lines 292-301
             IF fUseCache /\ ~fAlgoMissing(cand)
             THEN IF AnchorCacheMiss(cache, cand)
                  THEN [ok |-> TRUE, target |-> anchorTarget, cache |-> anchorKey,
                        path |-> "anchor"]
                  ELSE [ok |-> TRUE, target |-> cache.target, cache |-> cache,
                        path |-> "anchorhit"]
             ELSE [ok |-> TRUE, target |-> anchorTarget, cache |-> cache,
                   path |-> "anchor"]

\* lines 190-241: what AverageTargetASERT computes before it takes the
\* lock.  bail names the early return taken, or is "none".
ASERTLocals(b, pindexLast, cand, params, memo0) ==
    LET nTargetSpacing == TargetSpacing(cand, params)
        pindexPrev == LastInChannel(b, pindexLast, cand)
        pindexPrevPrev == LastInChannel(b, b[pindexPrev].pprev, cand)
        nToAverage == ToU32((4 * params.nPowTargetTimespan) \div nTargetSpacing)
        nBlocksPassed ==
            ToU32((IF cand.pos THEN b[pindexLast].nHeightPoS ELSE b[pindexLast].nHeightPoW) + 1)
        memo == InitReferenceBlocks(b, memo0, pindexPrev)
        pindexReferenceBlock == memo.ref[LimitIndex(cand)]
        pindexReferenceBlockPrev == LastInChannel(b, b[pindexReferenceBlock].pprev, cand)
        refTime0 == IF pindexReferenceBlockPrev # Null
                    THEN b[pindexReferenceBlockPrev].nTime
                    ELSE b[pindexReferenceBlock].nTime - nTargetSpacing
        refBlockTimestamp == IF cand.pos
                             THEN RoundUpToMask(refTime0, params.nStakeTimestampMask)
                             ELSE refTime0
    IN  IF pindexLast = Null THEN [bail |-> "genesis"]
        ELSE IF b[pindexPrev].pprev = Null THEN [bail |-> "first"]
        ELSE IF b[pindexPrevPrev].pprev = Null THEN [bail |-> "second"]
        ELSE IF nTargetSpacing = 0 THEN [bail |-> "divzero"]
        ELSE [bail |-> "none",
              pindexPrev |-> pindexPrev,
              memo |-> memo,
              ref |-> pindexReferenceBlock,
              nTargetSpacing |-> nTargetSpacing,
              nToAverage |-> nToAverage,
              nTimeDiff |-> b[pindexPrev].nTime - refBlockTimestamp,
              nHeightDiff |-> nBlocksPassed]

\* AverageTargetASERT(pindexLast, pblock, params) run from statics st.
\* Returns [res, st, path, ref]: the value returned, the statics left, the
\* path taken and the reference block used.
ASERTCall(b, pindexLast, cand, params, st, fUseCache, divZero) ==
    LET bnPowLimit == params.powLimit[LimitIndex(cand)]
        nProofOfWorkLimit == GetCompactBase256(bnPowLimit)
        lv == ASERTLocals(b, pindexLast, cand, params, st.memo)
        rt == ReferenceTarget(b, lv.pindexPrev, pindexLast, lv.ref, lv.nHeightDiff,
                              lv.nToAverage, cand, params, st.cache, fUseCache, divZero)
    IN  IF lv.bail \in {"genesis", "first", "second"}
        THEN [res |-> Ret(nProofOfWorkLimit), st |-> st, path |-> lv.bail, ref |-> Null]
        ELSE IF lv.bail = "divzero"
        THEN [res |-> Fail, st |-> st, path |-> "divzero", ref |-> Null]
        ELSE IF ~rt.ok
        THEN [res |-> Fail, st |-> [memo |-> lv.memo, cache |-> rt.cache], path |-> rt.path,
              ref |-> lv.ref]
        ELSE [res |-> ScaleTarget(rt.target, lv.nTimeDiff, lv.nTargetSpacing, lv.nHeightDiff,
                                  params, bnPowLimit),
              st |-> [memo |-> lv.memo, cache |-> rt.cache],
              path |-> rt.path,
              ref |-> lv.ref]

\* AverageTargetASERT as the source builds it: fUseCache is constexpr true
AverageTargetASERT(b, pindexLast, cand, params, st, divZero) ==
    ASERTCall(b, pindexLast, cand, params, st, TRUE, divZero)

\* GetNextWorkRequired, lines 52-83
GetNextWorkRequired(b, pindexLast, cand, params, st, divZero) ==
    LET algo == cand.algo
        nProofOfWorkLimit ==
            GetCompactBase256(params.powLimit[IF algo = -1 THEN ALGO_POW_SHA256 ELSE algo])
        sentinel == ToU32(nProofOfWorkLimit - 1)
        pindexPrev == GetLastBlockIndexForAlgo(b, pindexLast, algo)
        \* lines 68-70
        Walk[p \in 1..Len(b)] ==
            IF b[p].pprev # Null /\ (b[p].nBits = sentinel \/ b[p].algo # algo)
            THEN Walk[b[p].pprev] ELSE p
        pindex == Walk[pindexPrev]
        pprev == GetLastBlockIndexForAlgo(b, b[pindex].pprev, algo)
        fixed(bits, path) == [res |-> Ret(bits), st |-> st, path |-> path, ref |-> Null]
        asert == AverageTargetASERT(b, pindexLast, cand, params, st, divZero)
    IN  IF pindexLast = Null \/ params.fPowNoRetargeting
        THEN fixed(nProofOfWorkLimit, "limit")
        ELSE IF params.fPowAllowMinDifficultyBlocks /\ algo # -1
        THEN IF b[pindexPrev].nHeight > MinDifficultyHeight
                /\ cand.nTime > b[pindexPrev].nTime + MinDifficultyDelay
             THEN fixed(sentinel, "sentinel")
             ELSE IF b[pindexPrev].pprev # Null /\ b[pindexPrev].nBits = sentinel
                     /\ pprev # Null /\ b[pprev].nHeight > MinDifficultyHeight
             THEN (IF b[pprev].nBits # sentinel
                   THEN fixed(b[pprev].nBits, "walkback")
                   ELSE fixed(b[pindex].nBits, "walkback"))
             ELSE asert
        ELSE asert

\* the range check without the rejection of the POS tag
CheckProofOfWorkAnyTag(hash, nBits, algo, params) ==
    LET bnTarget == SetCompactBase256(nBits)
        idx == IF algo = -1 THEN ALGO_POW_SHA256 ELSE algo
        rangeFails == CompactNegative(nBits) \/ bnTarget = 0 \/ CompactOverflow(nBits)
                      \/ algo < -1 \/ algo >= ALGO_COUNT
    IN  IF rangeFails THEN [ret |-> FALSE, oob |-> FALSE]
        ELSE IF bnTarget > params.powLimit[idx] THEN [ret |-> FALSE, oob |-> FALSE]
        ELSE [ret |-> hash <= bnTarget, oob |-> FALSE]

\* CheckProofOfWork, lines 349-366.  powLimit is an array of ALGO_COUNT
\* entries; oob records an index outside it.
CheckProofOfWork(hash, nBits, algo, params) ==
    LET fNegative == CompactNegative(nBits)
        fOverflow == CompactOverflow(nBits)
        bnTarget == SetCompactBase256(nBits)
        idx == IF algo = -1 THEN ALGO_POW_SHA256 ELSE algo
        rangeFails == fNegative \/ bnTarget = 0 \/ fOverflow \/ algo < -1
                      \/ algo = ALGO_POS \/ algo >= ALGO_COUNT
    IN  IF rangeFails THEN [ret |-> FALSE, oob |-> FALSE]
        ELSE IF idx \notin DOMAIN params.powLimit THEN [ret |-> FALSE, oob |-> TRUE]
        ELSE IF bnTarget > params.powLimit[idx] THEN [ret |-> FALSE, oob |-> FALSE]
        ELSE IF hash > bnTarget THEN [ret |-> FALSE, oob |-> FALSE]
        ELSE [ret |-> TRUE, oob |-> FALSE]

----------------------------------------------------------------------------
(* The legacy epoch retarget, lines 85-144.                                *)

\* Consensus::Params::DifficultyAdjustmentInterval
DifficultyAdjustmentInterval(params) == params.nPowTargetTimespan \div params.nPowTargetSpacing

\* CBlockIndex::GetAncestor(height)
RECURSIVE GetAncestor(_, _, _)
GetAncestor(b, p, height) ==
    IF p = Null THEN Null
    ELSE IF height < 0 \/ height > b[p].nHeight THEN Null
    ELSE IF b[p].nHeight = height THEN p
    ELSE GetAncestor(b, b[p].pprev, height)

\* arith_uint256 operator*=(uint32_t)
Mul256(a, b32) == (a * b32) % U256

\* CalculateNextWorkRequired, lines 121-144
CalculateNextWorkRequired(b, pindexLast, nFirstBlockTime, params) ==
    LET span == b[pindexLast].nTime - nFirstBlockTime
        low == TruncDiv(params.nPowTargetTimespan, 4)
        high == params.nPowTargetTimespan * 4
        nActualTimespan == IF span < low THEN low ELSE IF span > high THEN high ELSE span
        bnPowLimit == params.powLimit[ALGO_POW_SHA256]
        scaled == Mul256(SetCompactBase256(b[pindexLast].nBits), ToU32(nActualTimespan))
        bnNew == scaled \div ToU32(params.nPowTargetTimespan)
    IN  IF params.fPowNoRetargeting THEN Ret(b[pindexLast].nBits)
        ELSE IF ToU32(params.nPowTargetTimespan) = 0 THEN Fail
        ELSE Ret(GetCompactBase256(IF bnNew > bnPowLimit THEN bnPowLimit ELSE bnNew))

\* lines 102-104: the last block that is not a min-difficulty block of its epoch
RECURSIVE LastNonSpecial(_, _, _, _)
LastNonSpecial(b, pindex, interval, nProofOfWorkLimit) ==
    IF b[pindex].pprev # Null /\ b[pindex].nHeight % interval # 0
       /\ b[pindex].nBits = nProofOfWorkLimit
    THEN LastNonSpecial(b, b[pindex].pprev, interval, nProofOfWorkLimit)
    ELSE pindex

\* GetNextWorkRequiredXEP, lines 85-119; Fail for a failed assert or a
\* division by a zero interval
GetNextWorkRequiredXEP(b, pindexLast, cand, params) ==
    LET nProofOfWorkLimit == GetCompactBase256(params.powLimit[ALGO_POW_SHA256])
        interval == DifficultyAdjustmentInterval(params)
        nHeightFirst == b[pindexLast].nHeight - (interval - 1)
        pindexFirst == GetAncestor(b, pindexLast, nHeightFirst)
    IN  IF pindexLast = Null THEN Fail
        ELSE IF params.nPowTargetSpacing = 0 \/ interval = 0 THEN Fail
        ELSE IF (b[pindexLast].nHeight + 1) % interval # 0
        THEN IF params.fPowAllowMinDifficultyBlocks
             THEN IF cand.nTime > b[pindexLast].nTime + params.nPowTargetSpacing * 2
                  THEN Ret(nProofOfWorkLimit)
                  ELSE Ret(b[LastNonSpecial(b, pindexLast, interval, nProofOfWorkLimit)].nBits)
             ELSE Ret(b[pindexLast].nBits)
        ELSE IF nHeightFirst < 0 \/ pindexFirst = Null THEN Fail
        ELSE CalculateNextWorkRequired(b, pindexLast, b[pindexFirst].nTime, params)

----------------------------------------------------------------------------
(* The process: a block index that grows and reorganizes, and validator    *)
(* calls into the retargeting entry points.                                *)

VARIABLES
    blocks,     \* the block index arena (mapBlockIndex), append-only
    params,     \* Consensus::Params, fixed for the process
    st,         \* the statics of AverageTargetASERT
    out,        \* the last call made: its arguments and what it returned
    threads,    \* validation threads inside AverageTargetASERT: position and locals
    mutex,      \* cs_target_cache: the thread that holds it, or Null
    locker      \* the AppLocker widget: its fields and the state of its form

vars == <<blocks, params, st, out, threads, mutex, locker>>

\* AppLocker::AppLocker, applocker.cpp lines 4-33, and the member
\* initialisers of applocker.h: the lock view is shown, the line edits are
\* empty; last is the handler that ran last and emitted the signal it sent
LockerInit ==
    [currentIndex |-> 1,
     walletLocked |-> FALSE,
     pinCode |-> <<>>,
     pinLineEdit |-> <<>>,
     confirmLineEdit |-> <<>>,
     unlockLineEdit |-> <<>>,
     buttonBoxEnabled |-> TRUE,
     cancelVisible |-> TRUE,
     shown |-> FALSE,
     quit |-> FALSE,
     last |-> "AppLocker",
     emitted |-> "none"]

\* no thread is inside AverageTargetASERT: calls are made one at a time
NoThreads == <<>>

MaxBlocks == 4

\* header kinds: (algorithm tag, stake flag); the stake flag of a tagged
\* header agrees with its tag
PoW1 == [algo |-> ALGO_POW_SHA256, pos |-> FALSE]

PoS0 == [algo |-> ALGO_POS, pos |-> TRUE]

PoWMissing == [algo |-> -1, pos |-> FALSE]

PoSMissing == [algo |-> -1, pos |-> TRUE]

Candidate(kind, t) == [algo |-> kind.algo, pos |-> kind.pos, nTime |-> t]

Params(limPoS, limPoW, spacing, timespan, mask, allowMin, noRetarget) ==
    [powLimit |-> [a \in 0..(ALGO_COUNT - 1) |-> IF a = ALGO_POS THEN limPoS ELSE limPoW],
     nPowTargetSpacing |-> spacing,
     nPowTargetTimespan |-> timespan,
     nStakeTimestampMask |-> mask,
     fPowAllowMinDifficultyBlocks |-> allowMin,
     fPowNoRetargeting |-> noRetarget]

NoCall == [fn |-> "none"]

\* the parameter sets of the process (limit of PoS, limit of PoW, PoS
\* spacing, timespan, stake timestamp mask, testnet flag, regtest flag):
\* an averaging window of one block, and one of two blocks with a PoS
\* spacing above 4 * timespan
ParamSets ==
    {Params(511, 1023, 2, 1, 0, FALSE, FALSE),
     Params(1023, 960, 16, 2, 3, FALSE, FALSE)}

GenesisBits == {399}

BlockBits(kind) == IF kind.pos THEN {336} ELSE {336, 399}

\* the genesis block carries no tag; every block connected after it does
BlockKinds == {PoW1, PoS0}

CandidateKinds == {PoW1, PoS0, PoWMissing, PoSMissing}

TimeSteps == {PoWSpacing}

Genesis(bits) == NewBlock(<<>>, Null, 0, bits, -1, FALSE)

Init ==
    /\ \E bits \in GenesisBits : blocks = <<Genesis(bits)>>
    /\ params \in ParamSets
    /\ st = StaticsInit
    /\ out = NoCall
    /\ threads = NoThreads
    /\ mutex = Null
    /\ locker = LockerInit

\* a block is connected on the tip, or on the tip's parent (a reorganization)
AddBlock ==
    /\ out = NoCall
    /\ Len(blocks) < MaxBlocks
    /\ \E p \in {Len(blocks), blocks[Len(blocks)].pprev} \ {Null} :
       \E kind \in BlockKinds, dt \in TimeSteps :
       \E bits \in BlockBits(kind) :
          blocks' = Append(blocks,
                       NewBlock(blocks, p, blocks[p].nTime + dt, bits, kind.algo, kind.pos))
    /\ UNCHANGED <<params, st, out, threads, mutex, locker>>

DivZeroChoices(cand) ==
    IF (4 * params.nPowTargetTimespan) \div TargetSpacing(cand, params) = 0
    THEN DivZeroOutcomes ELSE {"trap"}

\* AverageTargetASERT(tip, candidate, params); out also records what the same
\* call returns with the cache compiled out (fUseCache = false) and what it
\* returns as the first call of a process
CallASERT ==
    /\ out = NoCall
    /\ \E tip \in 0..Len(blocks), kind \in CandidateKinds :
       \E cand \in {Candidate(kind, 0)} :
       \E dz \in DivZeroChoices(cand) :
       \E r \in {AverageTargetASERT(blocks, tip, cand, params, st, dz)},
          nc \in {ASERTCall(blocks, tip, cand, params, st, FALSE, dz)},
          al \in {AverageTargetASERT(blocks, tip, cand, params, StaticsInit, dz)} :
            /\ st' = r.st
            /\ out' = [fn |-> "asert", last |-> tip, cand |-> cand, res |-> r.res,
                       path |-> r.path, ref |-> r.ref,
                       nocache |-> nc.res, alone |-> al.res]
    /\ UNCHANGED <<blocks, params, threads, mutex, locker>>

CallWTEMA ==
    /\ out = NoCall
    /\ \E tip \in 0..Len(blocks), kind \in CandidateKinds :
       \E cand \in {Candidate(kind, 0)} :
       \E r \in {WeightedTargetExponentialMovingAverage(blocks, tip, cand, params)} :
            out' = [fn |-> "wtema", last |-> tip, cand |-> cand, res |-> r]
    /\ UNCHANGED <<blocks, params, st, threads, mutex, locker>>

CallGetNextWorkRequired ==
    /\ out = NoCall
    /\ \E tip \in 0..Len(blocks), kind \in CandidateKinds :
       \E cand \in {Candidate(kind, 0)} :
       \E dz \in DivZeroChoices(cand) :
       \E r \in {GetNextWorkRequired(blocks, tip, cand, params, st, dz)},
          al \in {GetNextWorkRequired(blocks, tip, cand, params, StaticsInit, dz)} :
            /\ st' = r.st
            /\ out' = [fn |-> "gnwr", last |-> tip, cand |-> cand, res |-> r.res,
                       path |-> r.path, ref |-> r.ref, alone |-> al.res]
    /\ UNCHANGED <<blocks, params, threads, mutex, locker>>

StartHeights == 0..2

\* GetASERTReferenceBlockForAlgo(p, nASERTStartHeight, algo) on its own
CallResolve ==
    /\ out = NoCall
    /\ \E p \in 1..Len(blocks), h \in StartHeights, algo \in 0..(ALGO_COUNT - 1) :
         out' = [fn |-> "resolve", last |-> p, start |-> h, algo |-> algo,
                 res |-> GetASERTReferenceBlockForAlgo(blocks, p, h, algo)]
    /\ UNCHANGED <<blocks, params, st, threads, mutex, locker>>

\* the caller takes the returned value
Return ==
    /\ out # NoCall
    /\ out' = NoCall
    /\ UNCHANGED <<blocks, params, st, threads, mutex, locker>>

Next ==
    \/ AddBlock
    \/ CallASERT
    \/ CallWTEMA
    \/ CallGetNextWorkRequired
    \/ CallResolve
    \/ Return

Spec == Init /\ [][Next]_vars

----------------------------------------------------------------------------
(* CheckProofOfWork applied to hashes, compact words and algorithm tags.   *)

MaxCheckSize == 8

\* every compact word with a size byte up to MaxCheckSize
CheckBits == {size * MantMod + word : size \in 0..MaxCheckSize, word \in 0..(MantMod - 1)}

CheckHashes == {0, 1, 255, 256, 257, 959, 960, 961, 1023, 1024, U256 - 1}

CheckAlgos == (0 - 2)..(ALGO_COUNT + 1)

InitPoW ==
    /\ blocks = <<Genesis(399)>>
    /\ params \in ParamSets
    /\ st = StaticsInit
    /\ out = NoCall
    /\ threads = NoThreads
    /\ mutex = Null
    /\ locker = LockerInit

CallCheckProofOfWork ==
    /\ out = NoCall
    /\ \E hash \in CheckHashes, nBits \in CheckBits, algo \in CheckAlgos :
       \E r \in {CheckProofOfWork(hash, nBits, algo, params)} :
            out' = [fn |-> "check", hash |-> hash, nBits |-> nBits, algo |-> algo,
                    ret |-> r.ret, oob |-> r.oob]
    /\ UNCHANGED <<blocks, params, st, threads, mutex, locker>>

NextPoW ==
    \/ CallCheckProofOfWork
    \/ Return

SpecPoW == InitPoW /\ [][NextPoW]_vars

\* C4: CheckProofOfWork returns true exactly when nBits decodes to a target
\* that is non-zero, not negative and not overflowed, algo is -1 or a tag
\* below ALGO_COUNT other than POS, the target is at most
\* powLimit[algo = -1 ? SHA256 : algo] and hash <= target; powLimit is never
\* indexed out of range.
ProofOfWorkValid ==
    out.fn = "check" =>
        /\ ~out.oob
        /\ out.ret <=>
             /\ SetCompactBase256(out.nBits) # 0
             /\ ~CompactNegative(out.nBits)
             /\ ~CompactOverflow(out.nBits)
             /\ out.algo \in ({-1} \cup 0..(ALGO_COUNT - 1)) \ {ALGO_POS}
             /\ SetCompactBase256(out.nBits)
                    <= params.powLimit[IF out.algo = -1 THEN ALGO_POW_SHA256 ELSE out.algo]
             /\ out.hash <= SetCompactBase256(out.nBits)

\* a header accepted under the SHA256 tag
ProofOfWorkAccepted ==
    /\ out.fn = "check"
    /\ out.ret
    /\ out.algo = ALGO_POW_SHA256
    /\ out.hash > 0

----------------------------------------------------------------------------
(* Two chains that differ in the time of the last in-channel block only:   *)
(* blocks 3 and 4 are siblings with the same parent, tag and nBits.        *)

MonoKinds == {PoW1, PoS0}

\* compact words of the targets 1, 256 and 960
MonoBits == {80, 336, 399}

MonoTimes == {0 - 30, 0 - 12, 0 - 3, 0, 4, 5, 6, 8, 20, 60, I32Max + 4, I32Max + 5}

\* timespans of one and two ticks: the cubic times a target stays far below
\* the arith_uint512 width, as it does at the source's widths
MonoParamSets ==
    {Params(1023, 1023, 1, 1, 0, FALSE, FALSE),
     Params(1023, 1023, 1, 2, 0, FALSE, FALSE)}

MonoChain(kind, gbits, pbits, tA, tB) ==
    LET b1 == <<Genesis(gbits)>>
        b2 == Append(b1, NewBlock(b1, 1, PoWSpacing, pbits, kind.algo, kind.pos))
        b3 == Append(b2, NewBlock(b2, 2, tA, pbits, kind.algo, kind.pos))
    IN  Append(b3, NewBlock(b3, 2, tB, pbits, kind.algo, kind.pos))

InitMono ==
    /\ \E kind \in MonoKinds, gbits \in MonoBits, pbits \in MonoBits :
       \E tA \in MonoTimes, tB \in MonoTimes :
            /\ tA < tB
            /\ blocks = MonoChain(kind, gbits, pbits, tA, tB)
    /\ params \in MonoParamSets
    /\ st = StaticsInit
    /\ out = NoCall
    /\ threads = NoThreads
    /\ mutex = Null
    /\ locker = LockerInit

\* the candidate that follows the two sibling tips
MonoCandidate == Candidate([algo |-> blocks[Len(blocks)].algo, pos |-> blocks[Len(blocks)].pos], 0)

\* AverageTargetASERT on the earlier sibling, then on the later one
CallASERTPair ==
    /\ out = NoCall
    /\ \E cand \in {MonoCandidate} :
       \E dz \in DivZeroChoices(cand) :
       \E rA \in {AverageTargetASERT(blocks, Len(blocks) - 1, cand, params, st, dz)} :
       \E rB \in {AverageTargetASERT(blocks, Len(blocks), cand, params, rA.st, dz)} :
            /\ st' = rB.st
            /\ out' = [fn |-> "asertpair", cand |-> cand, first |-> rA.res, second |-> rB.res]
    /\ UNCHANGED <<blocks, params, threads, mutex, locker>>

CallWTEMAPair ==
    /\ out = NoCall
    /\ \E cand \in {MonoCandidate} :
       \E rA \in {WeightedTargetExponentialMovingAverage(blocks, Len(blocks) - 1, cand, params)},
          rB \in {WeightedTargetExponentialMovingAverage(blocks, Len(blocks), cand, params)} :
            out' = [fn |-> "wtemapair", cand |-> cand, first |-> rA, second |-> rB]
    /\ UNCHANGED <<blocks, params, st, threads, mutex, locker>>

NextMono ==
    \/ CallASERTPair
    \/ CallWTEMAPair
    \/ Return

SpecMono == InitMono /\ [][NextMono]_vars

\* C6: of two inputs identical except that the last in-channel block's time
\* is larger in the second, the second gets a decoded target >= the first's,
\* from AverageTargetASERT and from WeightedTargetExponentialMovingAverage.
MonotoneResponse ==
    (out.fn \in {"asertpair", "wtemapair"} /\ out.first.ok /\ out.second.ok
        /\ blocks[Len(blocks) - 1].nTime < blocks[Len(blocks)].nTime) =>
        SetCompactBase256(out.second.bits) >= SetCompactBase256(out.first.bits)

----------------------------------------------------------------------------
(* Two chains with the same in-channel blocks: a trunk of in-channel       *)
(* blocks, and a branch that leaves the trunk after IsoFork blocks with    *)
(* one block of the other channel and then repeats the trunk's blocks.     *)

MaxIso == 10

IsoParams == Params(1023, 1023, 4, 2, 0, TRUE, FALSE)

IsoBits == 336

OtherKind(kind) == IF kind = PoW1 THEN PoS0 ELSE PoW1

\* in-channel blocks of heights from..to of the trunk's schedule, connected on p
RECURSIVE IsoExtend(_, _, _, _, _)
IsoExtend(b, p, from, to, kind) ==
    IF from > to THEN b
    ELSE IsoExtend(Append(b, NewBlock(b, p, from * PoWSpacing, IsoBits, kind.algo, kind.pos)),
                   Len(b) + 1, from + 1, to, kind)

IsoChains(kind, n, fork) ==
    LET trunk == IsoExtend(<<Genesis(399)>>, 1, 1, n, kind)
        other == OtherKind(kind)
        off == Append(trunk, NewBlock(trunk, fork + 1, fork * PoWSpacing + 1, IsoBits,
                                      other.algo, other.pos))
    IN  IsoExtend(off, Len(off), fork + 1, n, kind)

InitIso ==
    /\ \E kind \in {PoW1, PoS0}, n \in 2..MaxIso :
       \E fork \in 1..(n - 1) :
            blocks = IsoChains(kind, n, fork)
    /\ params = IsoParams
    /\ st = StaticsInit
    /\ out = NoCall
    /\ threads = NoThreads
    /\ mutex = Null
    /\ locker = LockerInit

\* the tip of the trunk: the leaf that is not the last block connected
IsoTrunkTip ==
    CHOOSE i \in 1..(Len(blocks) - 1) : \A j \in 1..Len(blocks) : blocks[j].pprev # i

IsoDelays == {PoWSpacing, MinDifficultyDelay + 1}

\* GetNextWorkRequired for the same candidate on the trunk and on the branch
CallIsoPair ==
    /\ out = NoCall
    /\ \E delay \in IsoDelays, tipA \in {IsoTrunkTip} :
       \E cand \in {Candidate([algo |-> blocks[tipA].algo, pos |-> blocks[tipA].pos],
                              blocks[tipA].nTime + delay)} :
       \E dz \in DivZeroChoices(cand) :
       \E rA \in {GetNextWorkRequired(blocks, tipA, cand, params, st, dz)} :
       \E rB \in {GetNextWorkRequired(blocks, Len(blocks), cand, params, rA.st, dz)} :
            /\ st' = rB.st
            /\ out' = [fn |-> "isopair", cand |-> cand, trunk |-> tipA,
                       first |-> rA.res, second |-> rB.res,
                       firstPath |-> rA.path, secondPath |-> rB.path]
    /\ UNCHANGED <<blocks, params, threads, mutex, locker>>

NextIso ==
    \/ CallIsoPair
    \/ Return

SpecIso == InitIso /\ [][NextIso]_vars

\* times and nBits of the candidate's in-channel blocks on the chain of p,
\* oldest first
RECURSIVE ChannelHistory(_, _, _)
ChannelHistory(b, p, cand) ==
    IF p = Null THEN <<>>
    ELSE IF b[p].algo = cand.algo
         THEN Append(ChannelHistory(b, b[p].pprev, cand), <<b[p].nTime, b[p].nBits>>)
         ELSE ChannelHistory(b, b[p].pprev, cand)

\* C5: two chains with the same in-channel blocks (times and nBits) that
\* differ only by blocks of another channel inserted between them get the
\* same value from GetNextWorkRequired for the same in-channel candidate.
ChannelIsolated ==
    (out.fn = "isopair"
        /\ ChannelHistory(blocks, out.trunk, out.cand)
             = ChannelHistory(blocks, Len(blocks), out.cand)) =>
        out.first = out.second

----------------------------------------------------------------------------
(* Concurrent calls of AverageTargetASERT.  A thread runs lines 188-347 in *)
(* steps: the part before the lock, LOCK(cs_target_cache), the cache test, *)
(* each store to and load from the cache record, the release at the end of *)
(* the block, and the scaling.                                             *)

\* line 200: params.powLimit[algo == -1 ? ALGO_POW_SHA256 : algo]
ChannelLimit(cand) == params.powLimit[LimitIndex(cand)]

\* two callers, the validation thread and the miner
Threads == {1, 2}

\* PoW window of one block, PoS window of four
ConcParams == Params(1023, 1023, 1, 1, 0, FALSE, FALSE)

\* genesis, PoW, PoS, PoW, PoS, and a PoW block beside the second PoW block
ConcChain ==
    LET b1 == <<Genesis(399)>>
        b2 == Append(b1, NewBlock(b1, 1, PoWSpacing, 336, PoW1.algo, PoW1.pos))
        b3 == Append(b2, NewBlock(b2, 2, PoWSpacing + 1, 336, PoS0.algo, PoS0.pos))
        b4 == Append(b3, NewBlock(b3, 3, 2 * PoWSpacing, 336, PoW1.algo, PoW1.pos))
        b5 == Append(b4, NewBlock(b4, 4, 2 * PoWSpacing + 1, 336, PoS0.algo, PoS0.pos))
    IN  Append(b5, NewBlock(b5, 3, 2 * PoWSpacing, 399, PoW1.algo, PoW1.pos))

ConcTips == {Len(ConcChain) - 1, Len(ConcChain)}

ConcKinds == {PoW1, PoS0}

Idle == [pc |-> "idle"]

InitConc ==
    /\ blocks = ConcChain
    /\ params = ConcParams
    /\ st = StaticsInit
    /\ out = NoCall
    /\ threads = [t \in Threads |-> Idle]
    /\ mutex = Null
    /\ locker = LockerInit

\* the mutex blocks while another thread holds it
CanLockAlways(m) == TRUE

\* line 246: LOCK(cs_target_cache) proceeds when the mutex is free
CanLock(m) == m = Null

At(t, pc) == threads[t].pc = pc

Goto(t, pc) == threads' = [threads EXCEPT ![t].pc = pc]

\* lines 190-241: the early returns, the anchor memo and the locals
Start(t) ==
    /\ At(t, "idle")
    /\ \E tip \in ConcTips, kind \in ConcKinds :
       \E cand \in {Candidate(kind, 0)} :
       \E lv \in {ASERTLocals(blocks, tip, cand, params, st.memo)},
          al \in {AverageTargetASERT(blocks, tip, cand, params, StaticsInit, "trap").res} :
            IF lv.bail = "none"
            THEN /\ threads' = [threads EXCEPT ![t] =
                                    [pc |-> "lock", last |-> tip, alone |-> al, cand |-> cand,
                                     lv |-> lv]]
                 /\ st' = [st EXCEPT !.memo = lv.memo]
            ELSE /\ threads' = [threads EXCEPT ![t] =
                                    [pc |-> "done", alone |-> al, cand |-> cand,
                                     res |-> IF lv.bail = "divzero" THEN Fail
                                             ELSE Ret(GetCompactBase256(ChannelLimit(cand)))]]
                 /\ UNCHANGED st
    /\ UNCHANGED <<blocks, params, out, mutex, locker>>

\* line 246
Lock(t) ==
    /\ At(t, "lock")
    /\ CanLock(mutex)
    /\ mutex' = t
    /\ Goto(t, "test")
    /\ UNCHANGED <<blocks, params, st, out, locker>>

\* lines 253-265 and 292-293: the window end and the comparison of the cache
\* record with the key of this call; a miss computes the value to store
TestCache(t) ==
    /\ At(t, "test")
    /\ \E th \in {threads[t]} :
       \E rt \in {ReferenceTarget(blocks, th.lv.pindexPrev, th.last, th.lv.ref,
                                  th.lv.nHeightDiff, th.lv.nToAverage, th.cand, params,
                                  st.cache, TRUE, "trap")} :
            /\ rt.ok
            /\ threads' = [threads EXCEPT ![t] =
                 [pc |-> IF rt.path = "window" \/ (rt.path = "anchor" /\ ~fAlgoMissing(th.cand))
                         THEN "store_target"
                         ELSE IF rt.path = "anchor" THEN "unlock" ELSE "load",
                  last |-> th.last, alone |-> th.alone, cand |-> th.cand, lv |-> th.lv,
                  new |-> rt.cache,
                  target |-> IF rt.path \in {"window", "anchor"} THEN rt.target ELSE 0,
                  next |-> IF rt.path = "window" THEN "unlock" ELSE "load"]]
    /\ UNCHANGED <<blocks, params, st, out, mutex, locker>>

\* line 283 or 294
StoreTarget(t) ==
    /\ At(t, "store_target")
    /\ st' = [st EXCEPT !.cache.target = threads[t].new.target]
    /\ Goto(t, "store_height")
    /\ UNCHANGED <<blocks, params, out, mutex, locker>>

\* line 284 or 295
StoreHeight(t) ==
    /\ At(t, "store_height")
    /\ st' = [st EXCEPT !.cache.height = threads[t].new.height]
    /\ Goto(t, "store_algo")
    /\ UNCHANGED <<blocks, params, out, mutex, locker>>

\* line 285 or 296
StoreAlgo(t) ==
    /\ At(t, "store_algo")
    /\ st' = [st EXCEPT !.cache.algo = threads[t].new.algo]
    /\ Goto(t, "store_hash")
    /\ UNCHANGED <<blocks, params, out, mutex, locker>>

\* line 286 or 297
StoreHash(t) ==
    /\ At(t, "store_hash")
    /\ st' = [st EXCEPT !.cache.hash = threads[t].new.hash]
    /\ Goto(t, threads[t].next)
    /\ UNCHANGED <<blocks, params, out, mutex, locker>>

\* line 289 or 299: refBlockTarget = refBlockTargetCache
Load(t) ==
    /\ At(t, "load")
    /\ threads' = [threads EXCEPT ![t].target = st.cache.target, ![t].pc = "unlock"]
    /\ UNCHANGED <<blocks, params, st, out, mutex, locker>>

\* line 303: the lock guard leaves scope
Unlock(t) ==
    /\ At(t, "unlock")
    /\ mutex' = Null
    /\ Goto(t, "scale")
    /\ UNCHANGED <<blocks, params, st, out, locker>>

\* lines 305-346
Scale(t) ==
    /\ At(t, "scale")
    /\ \E th \in {threads[t]} :
       \E scaled \in {ScaleTarget512(th.target, th.lv.nTimeDiff, th.lv.nTargetSpacing,
                                     th.lv.nHeightDiff, params)} :
       \E res \in {ClampTarget(scaled, ChannelLimit(th.cand))} :
            threads' = [threads EXCEPT ![t] =
                            [pc |-> "done", alone |-> th.alone, cand |-> th.cand, res |-> res]]
    /\ UNCHANGED <<blocks, params, st, out, mutex, locker>>

\* the caller takes the returned value
Take(t) ==
    /\ At(t, "done")
    /\ threads' = [threads EXCEPT ![t] = Idle]
    /\ UNCHANGED <<blocks, params, st, out, mutex, locker>>

\* the steps of a call that has started
Run(t) ==
    \/ Lock(t)
    \/ TestCache(t)
    \/ StoreTarget(t)
    \/ StoreHeight(t)
    \/ StoreAlgo(t)
    \/ StoreHash(t)
    \/ Load(t)
    \/ Unlock(t)
    \/ Scale(t)

NextConc ==
    \E t \in Threads :
        \/ Start(t)
        \/ Run(t)
        \/ Take(t)

\* a runnable thread is scheduled; a thread waiting for the mutex gets it
SpecConc ==
    /\ InitConc
    /\ [][NextConc]_vars
    /\ \A t \in Threads : WF_vars(Run(t)) /\ SF_vars(Lock(t))

InCriticalSection(t) ==
    threads[t].pc \in {"test", "store_target", "store_height", "store_algo", "store_hash",
                       "load", "unlock"}

\* a thread reads or writes the cache record only while it holds the mutex
MutexHeldInside == \A t \in Threads : InCriticalSection(t) => mutex = t

\* a finished call has the value the same call returns when run alone
ResultsAsAlone ==
    \A t \in Threads :
        threads[t].pc = "done" => threads[t].res = threads[t].alone

\* C10: under every interleaving of concurrent AverageTargetASERT calls the
\* cache record is read and written only by the holder of cs_target_cache,
\* each call returns the value it returns when run alone, the holder always
\* releases the mutex and a waiting call gets it.
ConcurrentCallsIndependent ==
    /\ [](MutexHeldInside /\ ResultsAsAlone)
    /\ \A t \in Threads : (mutex = t) ~> (mutex # t)
    /\ \A t \in Threads : (threads[t].pc = "lock") ~> (threads[t].pc = "done")

\* one call finished from a cached value while another holds the mutex and
\* stores a record for a different key
ConcurrentHitReached ==
    \E t \in Threads, u \in Threads :
        /\ t # u
        /\ threads[t].pc = "done"
        /\ threads[t].res.ok
        /\ threads[t].res.bits # GetCompactBase256(ChannelLimit(threads[t].cand))
        /\ threads[u].pc = "store_height"
        /\ threads[u].cand # threads[t].cand

----------------------------------------------------------------------------
(* Properties of the retargeting entry points over the growing index.      *)

RECURSIVE ChainOf(_, _)
ChainOf(b, p) == IF p = Null THEN {} ELSE {p} \cup ChainOf(b, b[p].pprev)

\* the block belongs to the candidate's channel: its tag, or its stake flag
\* when the candidate carries no tag
InChannel(blk, cand) ==
    IF cand.algo = -1 THEN blk.pos = cand.pos ELSE blk.algo = cand.algo

ValidTarget(nBits, limit) ==
    /\ ~CompactNegative(nBits)
    /\ ~CompactOverflow(nBits)
    /\ SetCompactBase256(nBits) > 0
    /\ SetCompactBase256(nBits) <= limit

Retargeted == out.fn \in {"asert", "wtema", "gnwr"}

ChannelTargetsValid ==
    \A i \in ChainOf(blocks, out.last) :
        InChannel(blocks[i], out.cand) => ValidTarget(blocks[i].nBits, ChannelLimit(out.cand))

\* C1: on a chain whose in-channel blocks carry targets in (0, limit of the
\* channel], every value returned by GetNextWorkRequired, AverageTargetASERT
\* and WeightedTargetExponentialMovingAverage decodes to a target in
\* (0, limit of the candidate's channel], or is the min-difficulty sentinel
\* compact(limit) - 1.
BoundedOutput ==
    (Retargeted /\ out.res.ok /\ ChannelTargetsValid) =>
        \/ ValidTarget(out.res.bits, ChannelLimit(out.cand))
        \/ out.res.bits = ToU32(GetCompactBase256(ChannelLimit(out.cand)) - 1)

\* C2: every AverageTargetASERT call returns the value the same call returns
\* with the cache disabled (fUseCache = false).
CacheTransparent ==
    out.fn = "asert" => out.res = out.nocache

\* a call answered from the cached window average
CacheHitReached ==
    /\ out.fn = "asert"
    /\ out.path = "windowhit"
    /\ out.res.ok
    /\ out.res.bits # GetCompactBase256(ChannelLimit(out.cand))

\* C3: the value returned does not depend on the calls made before, and the
\* anchor used is the reference block resolved for the chain of this call
\* and the candidate's channel.
HistoryIndependent ==
    out.fn \in {"asert", "gnwr"} =>
        /\ out.res = out.alone
        /\ out.ref # Null =>
             out.ref = GetASERTReferenceBlockForAlgo(blocks,
                           LastInChannel(blocks, out.last, out.cand),
                           nASERTStartHeight, LimitIndex(out.cand))

\* a call that uses the anchor memoised by an earlier call on another tip
MemoReusedReached ==
    /\ out.fn \in {"asert", "gnwr"}
    /\ out.ref # Null
    /\ out.res.ok
    /\ out.res.bits # GetCompactBase256(ChannelLimit(out.cand))
    /\ st.memo.by \notin ChainOf(blocks, out.last)

\* C7: GetNextWorkRequired, AverageTargetASERT and
\* WeightedTargetExponentialMovingAverage return a value on every call: no
\* null block pointer is dereferenced and no division has a zero divisor.
Totality ==
    Retargeted => out.res.ok

InChannelCount ==
    Cardinality({i \in ChainOf(blocks, out.last) : InChannel(blocks[i], out.cand)})

\* C8: when last is null or the candidate's channel has fewer than two
\* blocks on the chain, the three entry points return exactly
\* compact(limit of the candidate's own channel).
DefensiveLimit ==
    (Retargeted /\ (out.last = Null \/ InChannelCount < 2)) =>
        out.res = Ret(GetCompactBase256(ChannelLimit(out.cand)))

TaggedOnChain(p, algo) == {i \in ChainOf(blocks, p) : blocks[i].algo = algo}

\* the earliest block in S (S is on one chain, so heights are distinct)
Earliest(S) == CHOOSE i \in S : \A j \in S : blocks[i].nHeight <= blocks[j].nHeight

\* C9: GetASERTReferenceBlockForAlgo(p, start, algo) returns the earliest
\* block tagged algo on p's chain whose height is >= start, or the earliest
\* block tagged algo when none reaches start.
ReferenceResolved ==
    (out.fn = "resolve" /\ TaggedOnChain(out.last, out.algo) # {}) =>
        LET S == TaggedOnChain(out.last, out.algo)
            atOrAbove == {i \in S : blocks[i].nHeight >= out.start}
        IN  out.res = IF atOrAbove # {} THEN Earliest(atOrAbove) ELSE Earliest(S)

----------------------------------------------------------------------------
(* Calls of the legacy entry point with retargeting switched off.          *)

\* regtest-style parameters: retargeting off, with and without the
\* min-difficulty rule, epochs of two and of three blocks
XEPParamSets ==
    {Params(1023, 1023, 1, iv, 0, allowMin, TRUE) : iv \in {2, 3}, allowMin \in BOOLEAN}

XEPKinds == {PoW1, PoS0}

\* candidate timestamps: not late, and later than any rule's delay
XEPTimes == {0, 8 * MaxBlocks + MinDifficultyDelay}

InitXEP ==
    /\ \E bits \in GenesisBits : blocks = <<Genesis(bits)>>
    /\ params \in XEPParamSets
    /\ st = StaticsInit
    /\ out = NoCall
    /\ threads = NoThreads
    /\ mutex = Null
    /\ locker = LockerInit

CallXEP ==
    /\ out = NoCall
    /\ \E tip \in 1..Len(blocks), kind \in XEPKinds, t \in XEPTimes :
       \E cand \in {Candidate(kind, t)} :
       \E r \in {GetNextWorkRequiredXEP(blocks, tip, cand, params)} :
            out' = [fn |-> "xep", last |-> tip, cand |-> cand, res |-> r]
    /\ UNCHANGED <<blocks, params, st, threads, mutex, locker>>

CallPrimary ==
    /\ out = NoCall
    /\ \E tip \in 1..Len(blocks), kind \in XEPKinds, t \in XEPTimes :
       \E cand \in {Candidate(kind, t)} :
       \E r \in {GetNextWorkRequired(blocks, tip, cand, params, st, "trap")} :
            /\ st' = r.st
            /\ out' = [fn |-> "primary", last |-> tip, cand |-> cand, res |-> r.res]
    /\ UNCHANGED <<blocks, params, threads, mutex, locker>>

NextXEP ==
    \/ AddBlock
    \/ CallXEP
    \/ CallPrimary
    \/ Return

SpecXEP == InitXEP /\ [][NextXEP]_vars

\* C11: with fPowNoRetargeting set and a non-null last block, at every height
\* and for every value of the other parameters, GetNextWorkRequiredXEP returns
\* the bits of the last block and GetNextWorkRequired returns the compact
\* form of the limit.
NoRetargetFrozen ==
    params.fPowNoRetargeting =>
        /\ out.fn = "xep" => out.res = Ret(blocks[out.last].nBits)
        /\ out.fn = "primary" => out.res = Ret(GetCompactBase256(ChannelLimit(out.cand)))

----------------------------------------------------------------------------
(* Properties of the moving average and of the anchored schedule.          *)

InChannelOnChain == {i \in ChainOf(blocks, out.last) : InChannel(blocks[i], out.cand)}

\* the latest block in S (S is on one chain, so heights are distinct)
Latest(S) == CHOOSE i \in S : \A j \in S : blocks[i].nHeight >= blocks[j].nHeight

\* the last and the last but one block of the candidate's channel
ChannelPrev == Latest(InChannelOnChain)

ChannelPrevPrev == Latest(InChannelOnChain \ {ChannelPrev})

\* C12: when the candidate's channel has at least two blocks on the chain and
\* the last two are exactly one target spacing apart, the moving average
\* returns a value, and it decodes to the target of the last in-channel
\* block, whatever N = timespan / (2 * spacing) is, 0 and 1 included.
OnScheduleFixedPoint ==
    (/\ out.fn = "wtema"
     /\ InChannelCount >= 2
     /\ ChannelTargetsValid
     /\ blocks[ChannelPrev].nTime - blocks[ChannelPrevPrev].nTime
            = TargetSpacing(out.cand, params)) =>
        /\ out.res.ok
        /\ SetCompactBase256(out.res.bits) = SetCompactBase256(blocks[ChannelPrev].nBits)

----------------------------------------------------------------------------
(* Chains with blocks one PoS spacing or one PoW spacing apart, short       *)
(* enough for the anchor path.                                              *)

\* a PoS spacing of one tick; windows of 4 (PoS) and 1 (PoW) blocks, and of
\* 16 (PoS) and 4 (PoW) blocks
AnchorParamSets ==
    {Params(1023, 1023, 1, 1, 0, FALSE, FALSE), Params(1023, 1023, 1, 4, 0, FALSE, FALSE)}

AnchorGenesisBits == {336, 399}

AnchorSteps == {1, PoWSpacing}

InitAnchor ==
    /\ \E bits \in AnchorGenesisBits : blocks = <<Genesis(bits)>>
    /\ params \in AnchorParamSets
    /\ st = StaticsInit
    /\ out = NoCall
    /\ threads = NoThreads
    /\ mutex = Null
    /\ locker = LockerInit

\* a block is connected on the tip, one step after its parent
AddTimedBlock ==
    /\ out = NoCall
    /\ Len(blocks) < MaxBlocks
    /\ \E kind \in BlockKinds, dt \in AnchorSteps :
          blocks' = Append(blocks,
                       NewBlock(blocks, Len(blocks), blocks[Len(blocks)].nTime + dt, 336,
                                kind.algo, kind.pos))
    /\ UNCHANGED <<params, st, out, threads, mutex, locker>>

NextAnchor ==
    \/ AddTimedBlock
    \/ CallASERT
    \/ Return

SpecAnchor == InitAnchor /\ [][NextAnchor]_vars

\* the locals of the call recorded in out
OutLocals == ASERTLocals(blocks, out.last, out.cand, params, st.memo)

OnAnchorPath == out.fn = "asert" /\ out.path \in {"anchor", "anchorhit"}

AnchorOnSchedule ==
    OutLocals.nTimeDiff = OutLocals.nTargetSpacing * OutLocals.nHeightDiff

----------------------------------------------------------------------------
(* The wallet locker form, applocker.cpp.                                  *)

MaxPinLen == 6

PinDigits == {1, 2}

\* the texts typed into a line edit: a digit repeated up to MaxPinLen times
PinTexts == {[i \in 1..n |-> d] : n \in 0..MaxPinLen, d \in PinDigits}

\* setLock with line 46 left out: the PIN is kept when the wallet unlocks
setLockKeepsPin(w) ==
    IF w.currentIndex = 0
    THEN IF w.unlockLineEdit = w.pinCode
         THEN [w EXCEPT !.walletLocked = FALSE, !.currentIndex = 1,
                        !.unlockLineEdit = <<>>, !.cancelVisible = TRUE,
                        !.last = "setLock", !.emitted = "lockingApp(false)"]
         ELSE [w EXCEPT !.last = "setLock", !.emitted = "none"]
    ELSE IF w.pinLineEdit = <<>> \/ w.confirmLineEdit = <<>>
    THEN [w EXCEPT !.last = "setLock", !.emitted = "none"]
    ELSE IF Len(w.pinLineEdit) < 5
    THEN [w EXCEPT !.last = "setLock", !.emitted = "none"]
    ELSE IF w.pinLineEdit # w.confirmLineEdit
    THEN [w EXCEPT !.last = "setLock", !.emitted = "none"]
    ELSE [w EXCEPT !.walletLocked = TRUE, !.pinCode = w.pinLineEdit,
                   !.pinLineEdit = <<>>, !.confirmLineEdit = <<>>, !.currentIndex = 0,
                   !.cancelVisible = FALSE, !.buttonBoxEnabled = FALSE,
                   !.last = "setLock", !.emitted = "lockingApp(true)"]

\* AppLocker::setLock, lines 40-80
setLock(w) ==
    IF w.currentIndex = 0
    THEN IF w.unlockLineEdit = w.pinCode
         THEN [w EXCEPT !.walletLocked = FALSE, !.pinCode = <<>>, !.currentIndex = 1,
                        !.unlockLineEdit = <<>>, !.cancelVisible = TRUE,
                        !.last = "setLock", !.emitted = "lockingApp(false)"]
         ELSE [w EXCEPT !.last = "setLock", !.emitted = "none"]
    ELSE IF w.pinLineEdit = <<>> \/ w.confirmLineEdit = <<>>
    THEN [w EXCEPT !.last = "setLock", !.emitted = "none"]
    ELSE IF Len(w.pinLineEdit) < 5
    THEN [w EXCEPT !.last = "setLock", !.emitted = "none"]
    ELSE IF w.pinLineEdit # w.confirmLineEdit
    THEN [w EXCEPT !.last = "setLock", !.emitted = "none"]
    ELSE [w EXCEPT !.walletLocked = TRUE, !.pinCode = w.pinLineEdit,
                   !.pinLineEdit = <<>>, !.confirmLineEdit = <<>>, !.currentIndex = 0,
                   !.cancelVisible = FALSE, !.buttonBoxEnabled = FALSE,
                   !.last = "setLock", !.emitted = "lockingApp(true)"]

\* AppLocker::closeEvent, lines 88-103; ret is the button of the warning box
closeEvent(w, ret) ==
    IF w.walletLocked
    THEN IF ret = "Cancel"
         THEN [w EXCEPT !.last = "closeEvent", !.emitted = "none"]
         ELSE [w EXCEPT !.shown = FALSE, !.quit = TRUE, !.last = "closeEvent",
                        !.emitted = "quitAppFromWalletLocker"]
    ELSE IF w.currentIndex = 1
    THEN [w EXCEPT !.shown = FALSE, !.last = "closeEvent", !.emitted = "none"]
    ELSE [w EXCEPT !.last = "closeEvent", !.emitted = "none"]

InitLocker ==
    /\ blocks = <<Genesis(399)>>
    /\ params \in ParamSets
    /\ st = StaticsInit
    /\ out = NoCall
    /\ threads = NoThreads
    /\ mutex = Null
    /\ locker = LockerInit

\* AppLocker::showLocker, lines 82-86
ShowLocker ==
    /\ ~locker.quit
    /\ locker' = [locker EXCEPT !.shown = TRUE, !.last = "showLocker", !.emitted = "none"]
    /\ UNCHANGED <<blocks, params, st, out, threads, mutex>>

\* the user types into the PIN field of the lock view
EditPin ==
    /\ locker.shown /\ locker.currentIndex = 1
    /\ \E text \in PinTexts :
         locker' = [locker EXCEPT !.pinLineEdit = text, !.last = "edit", !.emitted = "none"]
    /\ UNCHANGED <<blocks, params, st, out, threads, mutex>>

\* the user types into the confirmation field of the lock view
EditConfirm ==
    /\ locker.shown /\ locker.currentIndex = 1
    /\ \E text \in PinTexts :
         locker' = [locker EXCEPT !.confirmLineEdit = text, !.last = "edit",
                                  !.emitted = "none"]
    /\ UNCHANGED <<blocks, params, st, out, threads, mutex>>

\* the user types into the field of the unlock view; line 30: a text of more
\* than 5 characters enables the button box
EditUnlock ==
    /\ locker.shown /\ locker.currentIndex = 0
    /\ \E text \in PinTexts :
         /\ text # locker.unlockLineEdit
         /\ locker' = [locker EXCEPT !.unlockLineEdit = text,
                                     !.buttonBoxEnabled = IF Len(text) > 5 THEN TRUE ELSE @,
                                     !.last = "edit", !.emitted = "none"]
    /\ UNCHANGED <<blocks, params, st, out, threads, mutex>>

\* line 31: the Ok button of the enabled button box runs setLock
Accepted ==
    /\ locker.shown /\ locker.buttonBoxEnabled
    /\ locker' = setLock(locker)
    /\ UNCHANGED <<blocks, params, st, out, threads, mutex>>

\* line 32 and the window's close button: close() delivers a close event
Closed ==
    /\ locker.shown
    /\ \E ret \in {"Ok", "Cancel"} : locker' = closeEvent(locker, ret)
    /\ UNCHANGED <<blocks, params, st, out, threads, mutex>>

NextLocker ==
    \/ ShowLocker
    \/ EditPin
    \/ EditConfirm
    \/ EditUnlock
    \/ Accepted
    \/ Closed

SpecLocker == InitLocker /\ [][NextLocker]_vars

\* C14: setLock in the lock view locks the wallet only when the PIN entered
\* has at least 6 digits and equals the confirmation; for a PIN of fewer than
\* 6 digits walletLocked, pinCode and the view stay as they are and no
\* lockingApp signal is emitted.
LockNeedsSixDigits ==
    [][(locker.currentIndex = 1 /\ locker'.last = "setLock" /\ locker' # locker) =>
          /\ locker'.walletLocked =>
                Len(locker.pinLineEdit) >= 6 /\ locker.pinLineEdit = locker.confirmLineEdit
          /\ Len(locker.pinLineEdit) < 6 =>
                /\ locker'.walletLocked = locker.walletLocked
                /\ locker'.pinCode = locker.pinCode
                /\ locker'.currentIndex = locker.currentIndex
                /\ locker'.emitted = "none"]_vars

----------------------------------------------------------------------------
(* The cache record of AverageTargetASERT.                                 *)

\* the candidate kinds that record channel algo
KindsOfAlgo(algo) ==
    IF algo = ALGO_POS THEN {PoS0}
    ELSE IF algo = ALGO_POW_SHA256 THEN {PoW1}
    ELSE {PoWMissing, PoSMissing}

WindowSize(kind) ==
    ToU32((4 * params.nPowTargetTimespan) \div TargetSpacing(Candidate(kind, 0), params))

\* the window average that ends at block p, for a candidate of this kind
WindowAverage(p, kind) ==
    AverageLoop(blocks, p, 0, 0, WindowSize(kind), Candidate(kind, 0), params,
                GetCompactBase256(ChannelLimit(Candidate(kind, 0))))

\* the window end of the call recorded in out
OutWindowEnd ==
    SkipBack(blocks, OutLocals.pindexPrev, OutLocals.nHeightDiff % OutLocals.nToAverage,
             out.cand)

\* the record matches no key, or holds the window average of the block it
\* names, or holds the anchor target of its channel
RecordSound(cache) ==
    \/ cache.height = -2 /\ cache.algo = ALGO_COUNT
    \/ /\ cache.height >= 0
       /\ cache.hash \in 1..Len(blocks)
       /\ blocks[cache.hash].nHeight = cache.height
       /\ \E kind \in KindsOfAlgo(cache.algo) :
            WindowSize(kind) > 0 /\ cache.target = WindowAverage(cache.hash, kind)
    \/ /\ cache.height = -1
       /\ cache.hash = 0
       /\ cache.algo \in 0..(ALGO_COUNT - 1)
       /\ cache.target = SetCompactBase256(blocks[st.memo.ref[cache.algo]].nBits)

----------------------------------------------------------------------------
(* The scaling of lines 305-346 on its own: reference target, time          *)
(* difference and timespan are drawn from sets.                             *)

MaxExponent == 8

ScaleRefs == {1, 3, 256, 257, 960}

ScaleTimespans == {1, 2, 3}

ScaleParamSets == {Params(1023, 1023, 1, d, 0, FALSE, FALSE) : d \in ScaleTimespans}

InitScale ==
    /\ blocks = <<Genesis(399)>>
    /\ params \in ScaleParamSets
    /\ st = StaticsInit
    /\ out = NoCall
    /\ threads = NoThreads
    /\ mutex = Null
    /\ locker = LockerInit

\* PoS spacings: one tick, and half the range of uint32_t
ScaleSpacings == {1, U32 \div 2}

\* lines 305-346 for a PoS candidate; x is what nTimeDiff exceeds the
\* schedule nTargetSpacing * nHeightDiff by
CallScale ==
    /\ out = NoCall
    /\ \E ref \in ScaleRefs, nHeightDiff \in 1..3, nTargetSpacing \in ScaleSpacings :
       \E x \in (0 - MaxExponent * params.nPowTargetTimespan)
                    ..(MaxExponent * params.nPowTargetTimespan) :
       \E nTimeDiff \in {x + nTargetSpacing * nHeightDiff} :
       \E q \in {ScaleTarget512(ref, nTimeDiff, nTargetSpacing, nHeightDiff, params)} :
       \E res \in {ClampTarget(q, params.powLimit[ALGO_POS])} :
            out' = [fn |-> "scale", ref |-> ref, nTimeDiff |-> nTimeDiff,
                    nTargetSpacing |-> nTargetSpacing, nHeightDiff |-> nHeightDiff,
                    scaled |-> q, res |-> res]
    /\ UNCHANGED <<blocks, params, st, threads, mutex, locker>>

NextScale ==
    \/ CallScale
    \/ Return

SpecScale == InitScale /\ [][NextScale]_vars

\* the cubic over unbounded integers
ExactCubic(r, d) == 4 * r * r * r + 11 * r * r * d + 35 * r * d * d + 50 * d * d * d

\* numerator and denominator of the claim for a dividend and a divisor d
ExactFactor(dividend, d) ==
    LET e == Abs(dividend) \div d
        r == Abs(dividend) % d
        shift == Pow(2, e)
        big == shift * (IF r # 0 THEN ExactCubic(r, d) ELSE 1)
        small == IF r # 0 THEN 50 * d * d * d ELSE 1
    IN  IF dividend >= 0 THEN [num |-> big, den |-> small] ELSE [num |-> small, den |-> big]

\* floor(ref * numerator / denominator) over unbounded integers
ExactScaled(ref, dividend, d) ==
    (ref * ExactFactor(dividend, d).num) \div ExactFactor(dividend, d).den

\* C16: for the exponent and remainder of the call the scaled target is
\* floor(ref * numerator / denominator) computed over unbounded integers, so
\* the function returns the compact limit whenever that value exceeds the
\* limit (or is zero) and its rounded compact form otherwise; no shift or
\* product wraps.
ScalingExact ==
    (out.fn = "scale" /\ out.scaled.ok) =>
        LET exact == ExactScaled(out.ref, out.scaled.dividend, params.nPowTargetTimespan)
            limit == params.powLimit[ALGO_POS]
        IN  /\ out.scaled.bnNew512 = exact
            /\ out.res = IF exact > limit \/ exact = 0
                         THEN Ret(GetCompactBase256(limit))
                         ELSE Ret(GetCompactRoundedBase256(exact))

\* the quotient of x by d truncated toward zero
Truncated(x, d) == IF x >= 0 THEN x \div d ELSE 0 - ((0 - x) \div d)

\* C17: the dividend is time_diff - target_spacing * height_diff as a signed
\* quantity with the product not reduced modulo 2^32, for every block count;
\* the exponent is the dividend over the divisor truncated toward zero and
\* the remainder is |dividend| mod divisor, for both signs.
DividendSigned ==
    (out.fn = "scale" /\ out.scaled.ok) =>
        LET dividend == out.nTimeDiff - out.nTargetSpacing * out.nHeightDiff
        IN  /\ out.scaled.dividend = dividend
            /\ out.scaled.exponent = Truncated(dividend, params.nPowTargetTimespan)
            /\ out.scaled.remainder = Abs(dividend) % params.nPowTargetTimespan

----------------------------------------------------------------------------
(* The testnet rule of GetNextWorkRequired on chains taller than the        *)
(* height below which the rule is off.                                      *)

MaxTail == 3

TestnetParams == Params(1023, 1023, PoWSpacing, 2, 0, TRUE, FALSE)

\* compact(limit) - 1, what line 64 returns for a late candidate
TestnetSentinel == ToU32(GetCompactBase256(1023) - 1)

TestnetBits == {336, 351, TestnetSentinel}

\* the blocks connected after the base: each of the channel or of the other
\* one, each with regular bits or with the sentinel
TestnetItems == [own : BOOLEAN, bits : TestnetBits]

TestnetTails == UNION {[1..n -> TestnetItems] : n \in 1..MaxTail}

RECURSIVE TestnetExtend(_, _, _, _)
TestnetExtend(b, tail, i, kind) ==
    IF i > Len(tail) THEN b
    ELSE LET k == IF tail[i].own THEN kind ELSE OtherKind(kind)
         IN  TestnetExtend(Append(b, NewBlock(b, Len(b), b[Len(b)].nTime + PoWSpacing,
                                              tail[i].bits, k.algo, k.pos)),
                           tail, i + 1, kind)

InitTestnet ==
    /\ \E kind \in {PoW1, PoS0}, n \in {MinDifficultyHeight - 1, MinDifficultyHeight + 1} :
       \E tail \in TestnetTails :
            blocks = TestnetExtend(IsoExtend(<<Genesis(399)>>, 1, 1, n, kind), tail, 1, kind)
    /\ params = TestnetParams
    /\ st = StaticsInit
    /\ out = NoCall
    /\ threads = NoThreads
    /\ mutex = Null
    /\ locker = LockerInit

\* GetNextWorkRequired(tip, candidate, params) for a tagged candidate, on
\* time or late
CallTestnet ==
    /\ out = NoCall
    /\ \E kind \in {PoW1, PoS0}, delay \in IsoDelays :
       \E cand \in {Candidate(kind, blocks[Len(blocks)].nTime + delay)} :
       \E dz \in DivZeroChoices(cand) :
       \E r \in {GetNextWorkRequired(blocks, Len(blocks), cand, params, st, dz)} :
            /\ st' = r.st
            /\ out' = [fn |-> "testnet", last |-> Len(blocks), cand |-> cand,
                       res |-> r.res, path |-> r.path]
    /\ UNCHANGED <<blocks, params, threads, mutex, locker>>

NextTestnet ==
    \/ CallTestnet
    \/ Return

SpecTestnet == InitTestnet /\ [][NextTestnet]_vars

\* the in-channel blocks on the chain that do not carry the sentinel
RegularOnChain == {i \in InChannelOnChain : blocks[i].nBits # TestnetSentinel}

\* C18: when the candidate is tagged, the call does not return the sentinel
\* for a late candidate and the in-channel predecessor carries the sentinel,
\* the result is the nBits of the last in-channel block that does not carry
\* the sentinel; it is never the sentinel.
WalkBackRule ==
    (/\ out.fn = "testnet"
     /\ out.path # "sentinel"
     /\ InChannelOnChain # {}
     /\ blocks[ChannelPrev].nBits = TestnetSentinel
     /\ RegularOnChain # {}) =>
        /\ out.res = Ret(blocks[Latest(RegularOnChain)].nBits)
        /\ out.res # Ret(TestnetSentinel)

----------------------------------------------------------------------------
(* The samples of the window average.                                      *)

\* compact(limit) - 1 of the channel of the call recorded in out
OutSentinel == ToU32(GetCompactBase256(ChannelLimit(out.cand)) - 1)

\* the blocks of the candidate's channel at or before p that are not skipped
\* as min-difficulty blocks
Contributors(p) ==
    {i \in ChainOf(blocks, p) :
        /\ InChannel(blocks[i], out.cand)
        /\ blocks[i].nBits # OutSentinel \/ ~params.fPowAllowMinDifficultyBlocks}

\* floor(decode(nBits) / W) summed over the latest n blocks of S
RECURSIVE SumLatest(_, _, _)
SumLatest(S, n, W) ==
    IF n = 0 \/ S = {} THEN 0
    ELSE LET i == Latest(S)
         IN  (SetCompactBase256(blocks[i].nBits) \div W) + SumLatest(S \ {i}, n - 1, W)

\* C19: on the window path the reference target is the sum of
\* floor(decode(nBits) / W) over the latest W in-channel blocks at or before
\* window_end that do not carry the sentinel of a test network, fewer when
\* the chain has fewer; no block of another channel contributes.
WindowSamplesInChannel ==
    (out.fn = "testnet" /\ out.path = "window") =>
        st.cache.target = SumLatest(Contributors(OutWindowEnd), OutLocals.nToAverage,
                                    OutLocals.nToAverage)

----------------------------------------------------------------------------
(* One channel extended block by block, AverageTargetASERT called for the   *)
(* candidate on every tip.                                                  *)

MaxStable == 7

StableParamSets == {Params(1023, 1023, PoWSpacing, ts, 0, FALSE, FALSE) : ts \in {1, 2, 3}}

StableBits == {336, 351}

\* the channel of the chain: the kind of its first block after the genesis
StableKind == [algo |-> blocks[2].algo, pos |-> blocks[2].pos]

InitStable ==
    /\ \E kind \in CandidateKinds :
            blocks = <<Genesis(399), NewBlock(<<Genesis(399)>>, 1, PoWSpacing, 336,
                                              kind.algo, kind.pos)>>
    /\ params \in StableParamSets
    /\ st = StaticsInit
    /\ out = NoCall
    /\ threads = NoThreads
    /\ mutex = Null
    /\ locker = LockerInit

\* AverageTargetASERT(tip, candidate, params) for the next block of the channel
CallStable ==
    /\ out = NoCall
    /\ \E cand \in {Candidate(StableKind, blocks[Len(blocks)].nTime + PoWSpacing)} :
       \E dz \in DivZeroChoices(cand) :
       \E r \in {AverageTargetASERT(blocks, Len(blocks), cand, params, st, dz)} :
            /\ st' = r.st
            /\ out' = [fn |-> "stable", last |-> Len(blocks), cand |-> cand,
                       res |-> r.res, path |-> r.path]
    /\ UNCHANGED <<blocks, params, threads, mutex, locker>>

\* the block the call was made for is connected on the tip
ConnectStable ==
    /\ out.fn = "stable"
    /\ Len(blocks) <= MaxStable
    /\ \E bits \in StableBits :
         blocks' = Append(blocks, NewBlock(blocks, Len(blocks), out.cand.nTime, bits,
                                           out.cand.algo, out.cand.pos))
    /\ out' = NoCall
    /\ UNCHANGED <<params, st, threads, mutex, locker>>

NextStable ==
    \/ CallStable
    \/ ConnectStable

SpecStable == InitStable /\ [][NextStable]_vars

\* the height of a block within the channel of the candidate
ChannelHeight(blk, cand) == IF cand.pos THEN blk.nHeightPoS ELSE blk.nHeightPoW

\* the window end the call recorded in out worked with: the record holds it
\* after a recomputation and after a hit
StableWindowEnd == st.cache.hash

\* the window end is the in-channel block whose height in the channel is
\* W * (height_diff div W) - 1: the same block for W consecutive candidates,
\* W blocks further when height_diff mod W is 0 again
WindowEndPlaced ==
    (out.fn = "stable" /\ out.path \in {"window", "windowhit"}) =>
        LET W == OutLocals.nToAverage
        IN  /\ StableWindowEnd \in InChannelOnChain
            /\ ChannelHeight(blocks[StableWindowEnd], out.cand)
                   = W * (OutLocals.nHeightDiff \div W) - 1

\* the step is a call that recomputes the window average
Recomputes == out'.fn = "stable" /\ out'.path = "window"

\* the window of the call has moved since the previous candidate, or the
\* record held no window average of the channel before the call
WindowMoved ==
    \/ OutLocals'.nHeightDiff % OutLocals'.nToAverage = 0
    \/ st.cache.height < 0
    \/ st.cache.algo # out'.cand.algo

\* the statement of C20 for every channel, the channels of candidates
\* without a tag included
WindowEndStableAnyChannel ==
    /\ []WindowEndPlaced
    /\ [][Recomputes => WindowMoved]_vars

\* C20: as one channel is extended block by block and AverageTargetASERT is
\* called for every next candidate, window_end stays the same block for W
\* consecutive candidates and moves W in-channel blocks forward when
\* height_diff mod W is 0 again; for a candidate with an algorithm tag a call
\* recomputes the window average only when the window has moved or the
\* record held no window average of the channel.
WindowEndStable ==
    /\ []WindowEndPlaced
    /\ [][(Recomputes /\ ~fAlgoMissing(out'.cand)) => WindowMoved]_vars

\* a call that reuses the average of a window that has moved forward before
WindowReusedReached ==
    /\ out.fn = "stable"
    /\ out.path = "windowhit"
    /\ OutLocals.nToAverage >= 2
    /\ OutLocals.nHeightDiff > 2 * OutLocals.nToAverage

----------------------------------------------------------------------------
(* The states of the wallet locker.                                        *)

\* locked, the unlock view shown and a PIN stored go together
LockedViewPin ==
    /\ locker.walletLocked <=> locker.currentIndex = 0
    /\ locker.walletLocked <=> locker.pinCode # <<>>

\* the wallet unlocks only by setLock in the unlock view with the stored PIN
\* entered, and the PIN is cleared
UnlockedByPin ==
    (locker.walletLocked /\ ~locker'.walletLocked) =>
        /\ locker'.last = "setLock"
        /\ locker.currentIndex = 0
        /\ locker.unlockLineEdit = locker.pinCode
        /\ locker'.pinCode = <<>>

\* setLock with a wrong PIN changes nothing
WrongPinIgnored ==
    (/\ locker'.last = "setLock"
     /\ locker.currentIndex = 0
     /\ locker.unlockLineEdit # locker.pinCode) =>
        /\ locker'.walletLocked = locker.walletLocked
        /\ locker'.pinCode = locker.pinCode
        /\ locker'.currentIndex = locker.currentIndex
        /\ locker'.emitted = "none"

\* lockingApp(true) is emitted by the steps that lock, lockingApp(false) by
\* the steps that unlock, and by no other step: they alternate, true first
SignalsAlternate ==
    /\ locker'.emitted = "lockingApp(true)" <=> (~locker.walletLocked /\ locker'.walletLocked)
    /\ locker'.emitted = "lockingApp(false)" <=> (locker.walletLocked /\ ~locker'.walletLocked)

\* a close event of the locked form is accepted only with the quit signal
LockedCloseQuits ==
    (locker.walletLocked /\ locker'.last = "closeEvent" /\ locker.shown /\ ~locker'.shown) =>
        locker'.emitted = "quitAppFromWalletLocker" /\ locker'.quit

\* C21: in every state reached by accepts, text edits and close events the
\* wallet is locked exactly when the unlock view is shown and exactly when a
\* PIN is stored; it unlocks only by setLock in the unlock view with the
\* stored PIN entered, which clears the PIN; a wrong PIN changes nothing;
\* lockingApp(true) and lockingApp(false) alternate, true first; a close
\* event of the locked form is accepted only with quitAppFromWalletLocker.
LockerStateInvariant ==
    /\ []LockedViewPin
    /\ [][UnlockedByPin /\ WrongPinIgnored /\ SignalsAlternate /\ LockedCloseQuits]_vars

\* the wallet has been locked and unlocked again with its PIN
UnlockedAgainReached ==
    /\ locker.last = "setLock"
    /\ locker.emitted = "lockingApp(false)"
    /\ ~locker.walletLocked

\* C22: in every locked state where the unlock field holds the stored PIN
\* the button box is enabled, so that the user can accept, and setLock then
\* unlocks the wallet: every PIN that setLock accepted opens the form again.
StoredPinUnlocks ==
    (/\ locker.walletLocked
     /\ ~locker.quit
     /\ locker.unlockLineEdit = locker.pinCode) =>
        /\ locker.shown
        /\ locker.buttonBoxEnabled
        /\ ~setLock(locker).walletLocked

====
